---- MODULE Spec2Model ----
(***************************************************************************)
(* Model of gatsby-functions-middleware (src/index.ts).                    *)
(*                                                                         *)
(* A guard ("middleware") is a function from a next handler to a handler.  *)
(* combineMiddleware composes a list of guards with lodash flowRight; the  *)
(* composed guard is applied to a terminal handler and the result is       *)
(* invoked with a request/response pair.  An invocation is one synchronous *)
(* call chain: each stage either writes a response and returns, or calls   *)
(* the next stage.  The only asynchronous objects are the promises an      *)
(* authorizer may return; they settle independently of the call chain.     *)
(*                                                                         *)
(* JavaScript strings that the code compares or lowercases are modelled as *)
(* sequences of one-character strings; strings that are only passed        *)
(* through (response bodies, header names, CORS settings, the value of the *)
(* authorization header) are TLA+ strings.                                 *)
(***************************************************************************)
EXTENDS Integers, Sequences, FiniteSets, TLC

VARIABLES
  pc,           \* "build" | "idle" | "running" | "returned"
  middleware,   \* the guards constructed so far: the argument list of combineMiddleware
  composed,     \* combineMiddleware(...middleware)(handler): the stages, outermost first
  call,         \* the request/response pair the composed handler was invoked with
  args,         \* the request/response pair handed to the stage that runs next
  cur,          \* the stages of the call chain that have not run yet
  ran,          \* ids (list positions) of the guards whose logic has run, in order
  delegated,    \* ids of the guards that called next, in order
  res,          \* the response object: the writes made to it, in order, each with its writer
  handlerCalls, \* the request/response pairs the terminal handler was called with
  authCalls,    \* the authorizer calls: the calling guard and the header value passed
  promises,     \* the promises returned by authorizers: the calling guard and the state
  unhandled,    \* number of promise rejections nothing reacted to
  result,       \* "none" | "returned" | "threw": how the invocation ended
  frames,       \* what each guard that called next does with the result of next
  handlerRet,   \* the value the terminal handler returned ("none" before it returns)
  ret,          \* the value the composed handler returned ("none" before it returns)
  invocations,  \* number of invocations of the composed handler started so far
  previous      \* what the invocation before the current one was given and did

vars == <<pc, middleware, composed, call, args, cur, ran, delegated, res, handlerCalls,
          authCalls, promises, unhandled, result, frames, handlerRet, ret,
          invocations, previous>>

(***************************************************************************)
(* Bounds                                                                  *)
(***************************************************************************)
MaxGuards == 3

\* In the specification with repeated invocations
MaxGuardsAgain == 1
MaxInvocations == 2

(***************************************************************************)
(* JavaScript values                                                       *)
(***************************************************************************)
Undefined == [some |-> FALSE]
Some(v) == [some |-> TRUE, val |-> v]

UpperChars == <<"A","B","C","D","E","F","G","H","I","J","K","L","M",
                "N","O","P","Q","R","S","T","U","V","W","X","Y","Z">>
LowerChars == <<"a","b","c","d","e","f","g","h","i","j","k","l","m",
                "n","o","p","q","r","s","t","u","v","w","x","y","z">>

IsUpperChar(c) == \E i \in 1..26 : UpperChars[i] = c

LowerChar(c) ==
  IF IsUpperChar(c) THEN LowerChars[CHOOSE i \in 1..26 : UpperChars[i] = c] ELSE c

\* String.prototype.toLowerCase
toLowerCase(s) ==
  IF Len(s) = 0 THEN <<>> ELSE [i \in 1..Len(s) |-> LowerChar(s[i])]

HasUpper(s) == \E i \in 1..Len(s) : IsUpperChar(s[i])

\* Array.prototype.includes applied to a list of strings; x may be undefined
includes(list, x) == \E i \in 1..Len(list) : Some(list[i]) = x

\* JavaScript truthiness of the value an authorizer returns
Truthy(v) == IF v.type = "boolean" THEN v.b ELSE TRUE

\* req.headers?.[name]
header(req, name) ==
  IF req.headers.some THEN req.headers.val[name] ELSE Undefined

\* !header for a header value that is a string or undefined
Falsy(h) == ~h.some \/ h.val = ""

(***************************************************************************)
(* String literals of the source                                           *)
(***************************************************************************)
options == <<"o","p","t","i","o","n","s">>
EmptyString == <<>>

(***************************************************************************)
(* The outcome of one guard's logic on one request: the writes it makes to *)
(* the response, whether it calls next, the authorizer calls it makes,     *)
(* whether an authorizer call returned a promise, whether it throws, and   *)
(* what it returns: the result of next ("next") or the result of           *)
(* res...send(...) ("sent").                                               *)
(***************************************************************************)
Outcome(w, n) ==
  [writes |-> w, next |-> n, auth |-> <<>>, promise |-> FALSE, throws |-> FALSE,
   ret |-> IF n THEN "next" ELSE "sent"]

\* res.status(code).send(body)
Respond(code, body) == <<<<"status", code>>, <<"send", body>>>>

\* withHttpMethods: the comparison of the method is case-insensitive
withHttpMethods_caseInsensitive(methods, req) ==
  IF ~(\E i \in 1..Len(methods) :
         req.method.some /\ toLowerCase(methods[i]) = toLowerCase(req.method.val))
  THEN Outcome(Respond(405, "Method Not Allowed"), FALSE)
  ELSE Outcome(<<>>, TRUE)

\* withHttpMethods: the rejection is written but the return is missing
withHttpMethods_noReturn(methods, req) ==
  IF ~includes(methods, req.method)
  THEN Outcome(Respond(405, "Method Not Allowed"), TRUE)
  ELSE Outcome(<<>>, TRUE)

withHttpMethods(methods, req) ==
  IF ~includes(methods, req.method)
  THEN Outcome(Respond(405, "Method Not Allowed"), FALSE)
  ELSE Outcome(<<>>, TRUE)

\* req.headers?.['content-type']?.toLowerCase() ?? ''
requestContentType(req) ==
  LET h == header(req, "contentType")
  IN  IF h.some THEN toLowerCase(h.val) ELSE EmptyString

\* withContentTypes: the request's content type is compared without lowercasing
withContentTypes_notLowered(contentTypes, req) ==
  IF ~includes(contentTypes,
               IF header(req, "contentType").some
               THEN header(req, "contentType") ELSE Some(EmptyString))
  THEN Outcome(Respond(415, "Unsupported Media Type"), FALSE)
  ELSE Outcome(<<>>, TRUE)

\* withContentTypes: both sides of the comparison are lowercased
withContentTypes_lowerBoth(contentTypes, req) ==
  IF ~(\E i \in 1..Len(contentTypes) :
         toLowerCase(contentTypes[i]) = requestContentType(req))
  THEN Outcome(Respond(415, "Unsupported Media Type"), FALSE)
  ELSE Outcome(<<>>, TRUE)

\* withContentTypes: a request without a content-type header is let through
withContentTypes_missingPasses(contentTypes, req) ==
  IF header(req, "contentType").some
     /\ ~includes(contentTypes, Some(requestContentType(req)))
  THEN Outcome(Respond(415, "Unsupported Media Type"), FALSE)
  ELSE Outcome(<<>>, TRUE)

withContentTypes(contentTypes, req) ==
  IF ~includes(contentTypes, Some(requestContentType(req)))
  THEN Outcome(Respond(415, "Unsupported Media Type"), FALSE)
  ELSE Outcome(<<>>, TRUE)

(***************************************************************************)
(* An authorizer is supplied by the user of the library.  Called with the  *)
(* header value it throws, returns a boolean, or returns a promise (what   *)
(* its declared type AuthorizerFunction says).                             *)
(***************************************************************************)
AuthorizerKinds == {"returnsTrue", "returnsFalse", "throws", "returnsPromise"}

Boolean(b) == [type |-> "boolean", b |-> b]
PromiseObject == [type |-> "promise", b |-> TRUE]

\* authorizer(header): does the call throw, and otherwise the value it returns
authorizerCall(authorizer) ==
  CASE authorizer = "returnsTrue"    -> [throws |-> FALSE, value |-> Boolean(TRUE)]
    [] authorizer = "returnsFalse"   -> [throws |-> FALSE, value |-> Boolean(FALSE)]
    [] authorizer = "throws"         -> [throws |-> TRUE,  value |-> Boolean(FALSE)]
    [] authorizer = "returnsPromise" -> [throws |-> FALSE, value |-> PromiseObject]

AuthOutcome(w, n, h, v) ==
  [writes |-> w, next |-> n, auth |-> <<h>>, promise |-> (v.type = "promise"),
   throws |-> FALSE, ret |-> IF n THEN "next" ELSE "sent"]

\* withAuthorization: no try/catch around the authorizer call
withAuthorization_noCatch(authorizer, req) ==
  LET h == header(req, "authorization")
      r == authorizerCall(authorizer)
  IN  IF Falsy(h) THEN Outcome(Respond(401, "Unauthorized"), FALSE)
      ELSE IF r.throws
           THEN [writes |-> <<>>, next |-> FALSE, auth |-> <<h.val>>,
                 promise |-> FALSE, throws |-> TRUE, ret |-> "sent"]
      ELSE IF ~Truthy(r.value)
           THEN AuthOutcome(Respond(403, "Forbidden"), FALSE, h.val, r.value)
      ELSE AuthOutcome(<<>>, TRUE, h.val, r.value)

\* withAuthorization: only a missing header is rejected before the authorizer runs
withAuthorization_undefinedOnly(authorizer, req) ==
  LET h == header(req, "authorization")
      r == authorizerCall(authorizer)
  IN  IF ~h.some THEN Outcome(Respond(401, "Unauthorized"), FALSE)
      ELSE IF r.throws
           THEN AuthOutcome(Respond(401, "Unauthorized"), FALSE, h.val, Boolean(FALSE))
      ELSE IF ~Truthy(r.value)
           THEN AuthOutcome(Respond(403, "Forbidden"), FALSE, h.val, r.value)
      ELSE AuthOutcome(<<>>, TRUE, h.val, r.value)

\* withAuthorization: next is called but its result is not returned
withAuthorization_dropsResult(authorizer, req) ==
  LET h == header(req, "authorization")
      r == authorizerCall(authorizer)
  IN  IF Falsy(h) THEN Outcome(Respond(401, "Unauthorized"), FALSE)
      ELSE IF r.throws
           THEN AuthOutcome(Respond(401, "Unauthorized"), FALSE, h.val, Boolean(FALSE))
      ELSE IF ~Truthy(r.value)
           THEN AuthOutcome(Respond(403, "Forbidden"), FALSE, h.val, r.value)
      ELSE [AuthOutcome(<<>>, TRUE, h.val, r.value) EXCEPT !.ret = "undefined"]

\* withAuthorization: 403 is written for a falsy verdict but the return is missing
withAuthorization_forbiddenNoReturn(authorizer, req) ==
  LET h == header(req, "authorization")
      r == authorizerCall(authorizer)
  IN  IF Falsy(h) THEN Outcome(Respond(401, "Unauthorized"), FALSE)
      ELSE IF r.throws
           THEN AuthOutcome(Respond(401, "Unauthorized"), FALSE, h.val, Boolean(FALSE))
      ELSE IF ~Truthy(r.value)
           THEN AuthOutcome(Respond(403, "Forbidden"), TRUE, h.val, r.value)
      ELSE AuthOutcome(<<>>, TRUE, h.val, r.value)

\* The value the authorizer returns is tested as it is: the code does not
\* wait for a promise, and a promise object is truthy.
withAuthorization(authorizer, req) ==
  LET h == header(req, "authorization")
      r == authorizerCall(authorizer)
  IN  IF Falsy(h) THEN Outcome(Respond(401, "Unauthorized"), FALSE)
      ELSE IF r.throws
           THEN AuthOutcome(Respond(401, "Unauthorized"), FALSE, h.val, Boolean(FALSE))
      ELSE IF ~Truthy(r.value)
           THEN AuthOutcome(Respond(403, "Forbidden"), FALSE, h.val, r.value)
      ELSE AuthOutcome(<<>>, TRUE, h.val, r.value)

DefaultMaxAge == 5

\* corsConfig.maxAge || 5: every falsy max-age, 0 included, gives the default
maxAgeOrDefault_falsy(corsConfig) ==
  IF corsConfig.maxAge.some /\ corsConfig.maxAge.val # 0
  THEN corsConfig.maxAge.val ELSE DefaultMaxAge

\* corsConfig.maxAge ?? 5
maxAgeOrDefault(corsConfig) ==
  IF corsConfig.maxAge.some THEN corsConfig.maxAge.val ELSE DefaultMaxAge

\* The preflight writes with the credentials header written whatever the configuration
preflightWrites_alwaysCredentials(corsConfig) ==
  <<  <<"setHeader", "Allow", corsConfig.allowMethods>>,
      <<"setHeader", "Access-Control-Allow-Origin", corsConfig.allowOrigin>>,
      <<"setHeader", "Access-Control-Allow-Headers", corsConfig.allowHeaders>>,
      <<"setHeader", "Access-Control-Allow-Methods", corsConfig.allowMethods>>,
      <<"status", 204>>,
      <<"setHeader", "Access-Control-Allow-Credentials", "true">>,
      <<"setHeader", "Access-Control-Max-Age", maxAgeOrDefault(corsConfig)>>,
      <<"send", "">> >>

\* The writes of the preflight branch of withCors, in program order
preflightWrites(corsConfig) ==
  <<  <<"setHeader", "Allow", corsConfig.allowMethods>>,
      <<"setHeader", "Access-Control-Allow-Origin", corsConfig.allowOrigin>>,
      <<"setHeader", "Access-Control-Allow-Headers", corsConfig.allowHeaders>>,
      <<"setHeader", "Access-Control-Allow-Methods", corsConfig.allowMethods>>,
      <<"status", 204>>  >>
  \o (IF corsConfig.allowCredentials
      THEN << <<"setHeader", "Access-Control-Allow-Credentials", "true">> >>
      ELSE <<>>)
  \o << <<"setHeader", "Access-Control-Max-Age", maxAgeOrDefault(corsConfig)>>,
        <<"send", "">> >>

\* withCors: the preflight response is sent but the return is missing
withCors_noReturn(corsConfig, req) ==
  IF req.method.some /\ toLowerCase(req.method.val) = options
  THEN Outcome(preflightWrites(corsConfig), TRUE)
  ELSE Outcome(<<>>, TRUE)

\* withCors: the allow-origin header is set on every request, not only on preflight
withCors_originOnEveryRequest(corsConfig, req) ==
  IF req.method.some /\ toLowerCase(req.method.val) = options
  THEN Outcome(preflightWrites(corsConfig), FALSE)
  ELSE Outcome(<< <<"setHeader", "Access-Control-Allow-Origin", corsConfig.allowOrigin>> >>,
               TRUE)

\* withCors with a flag shared by all requests: only the first invocation of the
\* composed handler gets the preflight answer
withCors_answersOnce(corsConfig, req) ==
  IF req.method.some /\ toLowerCase(req.method.val) = options /\ invocations <= 1
  THEN Outcome(preflightWrites(corsConfig), FALSE)
  ELSE Outcome(<<>>, TRUE)

\* withCors: the method is compared with 'OPTIONS' without lowercasing
withCors_caseSensitive(corsConfig, req) ==
  IF req.method = Some(<<"O","P","T","I","O","N","S">>)
  THEN Outcome(preflightWrites(corsConfig), FALSE)
  ELSE Outcome(<<>>, TRUE)

withCors(corsConfig, req) ==
  IF req.method.some /\ toLowerCase(req.method.val) = options
  THEN Outcome(preflightWrites(corsConfig), FALSE)
  ELSE Outcome(<<>>, TRUE)

(***************************************************************************)
(* lodash flowRight.  A handler is the sequence of its stages, outermost   *)
(* first; the terminal handler is a one-stage sequence.  Applying a guard  *)
(* to a handler puts the guard's stage in front of it.                     *)
(***************************************************************************)
Reverse(s) == [i \in 1..Len(s) |-> s[Len(s) + 1 - i]]

\* g(next)
Apply(g, next) == <<g>> \o next

RECURSIVE flow(_, _)
\* lodash flow(funcs)(x): funcs[1] is applied first, each to the previous result
flow(funcs, x) ==
  IF Len(funcs) = 0 THEN x
  ELSE flow(Tail(funcs), Apply(Head(funcs), x))

\* lodash flowRight(funcs)(x) = flow(funcs.reverse())(x)
flowRight(funcs, x) ==
  IF Len(funcs) = 0 THEN x ELSE flow(Reverse(funcs), x)

\* combineMiddleware composing with flow instead of flowRight
combineMiddleware_flow(mw, handler) == flow(mw, handler)

\* combineMiddleware that loses the handler when the list of guards is empty
combineMiddleware_emptyLosesHandler(mw, handler) ==
  IF Len(mw) = 0 THEN <<>> ELSE flowRight(mw, handler)

\* combineMiddleware(...middleware)(handler)
combineMiddleware(mw, handler) == flowRight(mw, handler)

\* The terminal handler of the README: res.status(200).send('Hello, world')
TerminalHandler == << [id |-> 0, kind |-> "handler", config |-> "Hello, world"] >>

(***************************************************************************)
(* Inputs                                                                  *)
(***************************************************************************)
GET == <<"G","E","T">>
get == <<"g","e","t">>
OPTIONS == <<"O","P","T","I","O","N","S">>
Options == <<"O","p","t","i","o","n","s">>
ab == <<"a","/","b">>
Ab == <<"A","/","b">>

MethodLists == { <<GET>>, <<GET, OPTIONS>> }
ContentTypeLists == { <<ab>>, <<Ab>>, <<ab, EmptyString>> }
CorsConfig(credentials, maxAge) ==
  [allowOrigin |-> "*", allowHeaders |-> "x-special-header", allowMethods |-> "GET",
   allowCredentials |-> credentials, maxAge |-> maxAge]

CorsConfigs ==
  { CorsConfig(TRUE, Some(0)), CorsConfig(FALSE, Undefined), CorsConfig(FALSE, Some(600)) }

RequestMethods == {Undefined, Some(GET), Some(get), Some(OPTIONS), Some(Options)}
RequestContentTypes == {Undefined, Some(ab), Some(Ab)}
RequestAuthorizations == {Undefined, Some(""), Some("Bearer valid")}
RequestHeaders ==
  {Undefined} \cup
  { Some([contentType |-> c, authorization |-> a]) :
      c \in RequestContentTypes, a \in RequestAuthorizations }
Requests == [method : RequestMethods, headers : RequestHeaders]

(***************************************************************************)
(* Initial state: nothing constructed yet                                  *)
(***************************************************************************)
NoCall == [req |-> [method |-> Undefined, headers |-> Undefined], res |-> 0]

\* There is no invocation before the first one
NoInvocation == [invoked |-> FALSE]

Init ==
  /\ pc = "build"
  /\ middleware = <<>>
  /\ composed = <<>>
  /\ call = NoCall
  /\ args = NoCall
  /\ cur = <<>>
  /\ ran = <<>>
  /\ delegated = <<>>
  /\ res = <<>>
  /\ handlerCalls = <<>>
  /\ authCalls = <<>>
  /\ promises = <<>>
  /\ unhandled = 0
  /\ result = "none"
  /\ frames = <<>>
  /\ handlerRet = "none"
  /\ ret = "none"
  /\ invocations = 0
  /\ previous = NoInvocation

(***************************************************************************)
(* Construction of the guards and of the composed handler                  *)
(***************************************************************************)
AddGuardUpTo(limit, kind, config) ==
  /\ pc = "build"
  /\ Len(middleware) < limit
  /\ middleware' = Append(middleware,
                     [id |-> Len(middleware) + 1, kind |-> kind, config |-> config])
  /\ UNCHANGED <<pc, composed, call, args, cur, ran, delegated, res, handlerCalls,
                 authCalls, promises, unhandled, result, frames, handlerRet, ret,
                 invocations, previous>>

AddGuard(kind, config) == AddGuardUpTo(MaxGuards, kind, config)

WithHttpMethods == \E m \in MethodLists : AddGuard("withHttpMethods", m)
WithContentTypes == \E c \in ContentTypeLists : AddGuard("withContentTypes", c)
WithAuthorization == \E a \in AuthorizerKinds : AddGuard("withAuthorization", a)
WithCors == \E c \in CorsConfigs : AddGuard("withCors", c)

CombineMiddleware ==
  /\ pc = "build"
  /\ composed' = combineMiddleware(middleware, TerminalHandler)
  /\ pc' = "idle"
  /\ UNCHANGED <<middleware, call, args, cur, ran, delegated, res, handlerCalls,
                 authCalls, promises, unhandled, result, frames, handlerRet, ret,
                 invocations, previous>>

(***************************************************************************)
(* One invocation of the composed handler                                  *)
(***************************************************************************)
Invoke ==
  /\ pc = "idle"
  /\ \E r \in Requests :
       /\ call' = [req |-> r, res |-> 1]
       /\ args' = [req |-> r, res |-> 1]
  /\ cur' = composed
  /\ pc' = "running"
  /\ invocations' = invocations + 1
  /\ UNCHANGED <<middleware, composed, ran, delegated, res, handlerCalls,
                 authCalls, promises, unhandled, result, frames, handlerRet, ret,
                 previous>>

\* The items of ws, each marked with the stage that produced it
Tagged(id, ws) ==
  IF Len(ws) = 0 THEN <<>> ELSE [k \in 1..Len(ws) |-> [by |-> id, w |-> ws[k]]]

\* The value of res.status(...).send(...): whatever the response object's send returns
SendResult == "sendResult"

\* The values the terminal handler may return
HandlerReturns == {"undefined", "handlerValue"}

RECURSIVE Unwind(_, _)
\* The value that reaches the caller of the composed handler when the innermost
\* stage returns v: each guard that called next returns the result of next
\* ("next") or nothing ("undefined"); the innermost guard is the last frame.
Unwind(fs, v) ==
  IF Len(fs) = 0 THEN v
  ELSE Unwind(SubSeq(fs, 1, Len(fs) - 1),
              IF fs[Len(fs)] = "next" THEN v ELSE "undefined")

\* The stage at the head of the chain runs and has outcome o
RunGuard(o) ==
  /\ ran' = Append(ran, Head(cur).id)
  /\ res' = res \o Tagged(Head(cur).id, o.writes)
  /\ authCalls' = authCalls \o Tagged(Head(cur).id, o.auth)
  /\ promises' = IF o.promise
                 THEN Append(promises, [by |-> Head(cur).id, state |-> "pending"])
                 ELSE promises
  /\ IF o.next
     THEN /\ cur' = Tail(cur)
          /\ delegated' = Append(delegated, Head(cur).id)
          /\ frames' = Append(frames, o.ret)
          /\ UNCHANGED <<pc, result, ret>>
     ELSE /\ pc' = "returned"
          /\ result' = IF o.throws THEN "threw" ELSE "returned"
          /\ ret' = IF o.throws THEN "none" ELSE Unwind(frames, SendResult)
          /\ UNCHANGED <<cur, delegated, frames>>
  /\ UNCHANGED <<middleware, composed, call, args, handlerCalls, unhandled, handlerRet,
                 invocations, previous>>

AtStage(kind) == pc = "running" /\ Len(cur) > 0 /\ Head(cur).kind = kind

HttpMethodsGuard ==
  /\ AtStage("withHttpMethods")
  /\ RunGuard(withHttpMethods(Head(cur).config, args.req))

ContentTypesGuard ==
  /\ AtStage("withContentTypes")
  /\ RunGuard(withContentTypes(Head(cur).config, args.req))

AuthorizationGuard ==
  /\ AtStage("withAuthorization")
  /\ RunGuard(withAuthorization(Head(cur).config, args.req))

CorsGuard ==
  /\ AtStage("withCors")
  /\ RunGuard(withCors(Head(cur).config, args.req))

\* The terminal handler is called with the pair the last guard passed on
Handler ==
  /\ AtStage("handler")
  /\ handlerCalls' = Append(handlerCalls, args)
  /\ res' = res \o Tagged(Head(cur).id, Respond(200, Head(cur).config))
  /\ cur' = Tail(cur)
  /\ pc' = "returned"
  /\ result' = "returned"
  /\ \E v \in HandlerReturns :
       /\ handlerRet' = v
       /\ ret' = Unwind(frames, v)
  /\ UNCHANGED <<middleware, composed, call, args, ran, delegated, authCalls, promises,
                 unhandled, frames, invocations, previous>>

\* A promise returned by an authorizer settles.  withAuthorization attached
\* no reaction to it, so a rejection is an unhandled rejection.
Settle ==
  \E i \in 1..Len(promises) :
    /\ promises[i].state = "pending"
    /\ \E s \in {"fulfilledTrue", "fulfilledFalse", "rejected"} :
         /\ promises' = [promises EXCEPT ![i].state = s]
         /\ unhandled' = IF s = "rejected" THEN unhandled + 1 ELSE unhandled
    /\ UNCHANGED <<pc, middleware, composed, call, args, cur, ran, delegated, res,
                   handlerCalls, authCalls, result, frames, handlerRet, ret,
                   invocations, previous>>

(***************************************************************************)
(* Repeated invocation.  The invocations of the composed handler are       *)
(* synchronous call chains, so a later invocation starts when the earlier  *)
(* one has returned; promises of earlier invocations may still settle      *)
(* while it runs.  The later invocation gets new request and response      *)
(* objects with the same content as the earlier one.                       *)
(***************************************************************************)
\* What the guards decided in the current invocation
Decision ==
  [guardWrites |-> SelectSeq(res, LAMBDA e : e.by # 0),
   ran         |-> ran,
   delegated   |-> delegated,
   authCalls   |-> authCalls,
   handler     |-> Len(handlerCalls),
   result      |-> result]

InvokeAgain ==
  /\ pc = "returned"
  /\ invocations < MaxInvocations
  /\ previous' = [invoked |-> TRUE, req |-> call.req, res |-> call.res,
                  middleware |-> middleware, composed |-> composed,
                  decision |-> Decision]
  /\ call' = [req |-> call.req, res |-> call.res + 1]
  /\ args' = [req |-> call.req, res |-> call.res + 1]
  /\ cur' = composed
  /\ pc' = "running"
  /\ invocations' = invocations + 1
  /\ ran' = <<>>
  /\ delegated' = <<>>
  /\ res' = <<>>
  /\ handlerCalls' = <<>>
  /\ authCalls' = <<>>
  /\ result' = "none"
  /\ frames' = <<>>
  /\ handlerRet' = "none"
  /\ ret' = "none"
  /\ UNCHANGED <<middleware, composed, promises, unhandled>>

Next ==
  \/ WithHttpMethods
  \/ WithContentTypes
  \/ WithAuthorization
  \/ WithCors
  \/ CombineMiddleware
  \/ Invoke
  \/ HttpMethodsGuard
  \/ ContentTypesGuard
  \/ AuthorizationGuard
  \/ CorsGuard
  \/ Handler
  \/ Settle

Spec == Init /\ [][Next]_vars

NextAgain ==
  \/ \E m \in MethodLists : AddGuardUpTo(MaxGuardsAgain, "withHttpMethods", m)
  \/ \E c \in ContentTypeLists : AddGuardUpTo(MaxGuardsAgain, "withContentTypes", c)
  \/ \E a \in AuthorizerKinds : AddGuardUpTo(MaxGuardsAgain, "withAuthorization", a)
  \/ \E c \in CorsConfigs : AddGuardUpTo(MaxGuardsAgain, "withCors", c)
  \/ CombineMiddleware
  \/ Invoke
  \/ HttpMethodsGuard
  \/ ContentTypesGuard
  \/ AuthorizationGuard
  \/ CorsGuard
  \/ Handler
  \/ Settle
  \/ InvokeAgain

SpecAgain == Init /\ [][NextAgain]_vars

TypeOK ==
  /\ pc \in {"build", "idle", "running", "returned"}
  /\ Len(middleware) <= MaxGuards
  /\ result \in {"none", "returned", "threw"}

(***************************************************************************)
(* Vocabulary of the properties                                            *)
(***************************************************************************)
Returned == pc = "returned"

Guard(id) == middleware[id]

Ran(id) == \E k \in 1..Len(ran) : ran[k] = id
Delegated(id) == \E k \in 1..Len(delegated) : delegated[k] = id
HandlerInvoked == Len(handlerCalls) > 0

\* The writes stage id made to the response, in order
WritesOf(id) ==
  LET s == SelectSeq(res, LAMBDA e : e.by = id)
  IN  IF Len(s) = 0 THEN <<>> ELSE [k \in 1..Len(s) |-> s[k].w]

WroteNothing(id) == \A k \in 1..Len(res) : res[k].by # id

\* Stage id wrote exactly status code and body, and nothing else
Responded(id, code, body) == WritesOf(id) = Respond(code, body)

\* Stage id sent a body
SentBody(id) == \E k \in 1..Len(res) : res[k].by = id /\ res[k].w[1] = "send"

SetHeader(id, name, value) ==
  \E k \in 1..Len(res) :
    /\ res[k].by = id
    /\ res[k].w[1] = "setHeader"
    /\ res[k].w[2] = name
    /\ res[k].w[3] = value

WroteStatus(id, code) ==
  \E k \in 1..Len(res) :
    res[k].by = id /\ res[k].w[1] = "status" /\ res[k].w[2] = code

AuthorizerCalledBy(id) == \E k \in 1..Len(authCalls) : authCalls[k].by = id

RECURSIVE Nested(_, _)
\* g1(g2(...gn(handler)))
Nested(gs, handler) ==
  IF Len(gs) = 0 THEN handler ELSE Apply(Head(gs), Nested(Tail(gs), handler))

\* m is the word OPTIONS in some letter case
IsOptionsAnyCase(m) ==
  /\ m.some
  /\ Len(m.val) = 7
  /\ \A i \in 1..7 : m.val[i] = OPTIONS[i] \/ m.val[i] = options[i]

\* x is defined and equal, character by character, to an entry of list
ExactMember(list, x) == x.some /\ \E i \in 1..Len(list) : list[i] = x.val

\* The request's content-type header in lower case, empty when there is none
LoweredContentType(req) ==
  IF req.headers.some /\ req.headers.val.contentType.some
  THEN toLowerCase(req.headers.val.contentType.val)
  ELSE <<>>

AuthorizationMissing(req) ==
  \/ ~req.headers.some
  \/ ~req.headers.val.authorization.some
  \/ req.headers.val.authorization.val = ""

\* The request is one guard g is meant to let through
Allows(g, req) ==
  CASE g.kind = "withHttpMethods"   -> ExactMember(g.config, req.method)
    [] g.kind = "withContentTypes"  -> ExactMember(g.config, Some(LoweredContentType(req)))
    [] g.kind = "withAuthorization" ->
         /\ ~AuthorizationMissing(req)
         /\ g.config \in {"returnsTrue", "returnsPromise"}
    [] g.kind = "withCors"          -> ~IsOptionsAnyCase(req.method)

AllVerdictsTruthy == \A k \in 1..Len(promises) : promises[k].state = "fulfilledTrue"

(***************************************************************************)
(* C1: the guards' logic runs in list order: the k-th guard to run is the  *)
(* k-th of the list, it runs only after its predecessor has called next,   *)
(* the terminal handler runs only after the last guard has called next,    *)
(* and the composed handler is g1(g2(...gn(handler))).                     *)
(***************************************************************************)
C1_ListOrder ==
  /\ \A k \in 1..Len(ran) : ran[k] = k
  /\ \A k \in 2..Len(ran) : Delegated(k - 1)
  /\ HandlerInvoked =>
       /\ Len(ran) = Len(middleware)
       /\ Len(middleware) > 0 => Delegated(Len(middleware))
  /\ pc # "build" => composed = Nested(middleware, TerminalHandler)

C1_Witness ==
  /\ Returned
  /\ Len(middleware) = 3
  /\ ran = <<1, 2, 3>>
  /\ HandlerInvoked
  /\ Guard(1).kind = "withCors"
  /\ Guard(2).kind = "withHttpMethods"
  /\ Guard(3).kind = "withAuthorization"

(***************************************************************************)
(* C2: within one invocation no guard's logic runs twice; once a guard has *)
(* sent a response no later guard and not the terminal handler runs; and   *)
(* when the invocation is over a guard that did not run has a predecessor  *)
(* that ran and did not call next.                                         *)
(***************************************************************************)
C2_ShortCircuit ==
  /\ \A j, k \in 1..Len(ran) : ran[j] = ran[k] => j = k
  /\ \A i \in 1..Len(middleware) :
       (Ran(i) /\ SentBody(i)) =>
          /\ ~HandlerInvoked
          /\ \A j \in 1..Len(middleware) : j > i => ~Ran(j)
  /\ Returned =>
       \A i \in 1..Len(middleware) :
         ~Ran(i) => \E j \in 1..(i - 1) : Ran(j) /\ ~Delegated(j)

C2_Witness ==
  /\ Returned
  /\ Len(middleware) = 3
  /\ ran = <<1, 2>>
  /\ SentBody(2)
  /\ ~HandlerInvoked

(***************************************************************************)
(* C3: when every guard of the list lets the request through (and every    *)
(* verdict an authorizer promised is truthy), the terminal handler has     *)
(* been called exactly once when the invocation is over, with the          *)
(* request/response pair the composed handler was invoked with; it is      *)
(* never called more than once.                                            *)
(***************************************************************************)
C3_AllowedReachesHandler ==
  /\ Len(handlerCalls) <= 1
  /\ (/\ Returned
      /\ \A i \in 1..Len(middleware) : Allows(Guard(i), call.req)
      /\ AllVerdictsTruthy)
     => handlerCalls = <<call>>

C3_Witness ==
  /\ Returned
  /\ Len(middleware) = 3
  /\ \A i \in 1..3 : Allows(Guard(i), call.req)
  /\ AllVerdictsTruthy
  /\ Guard(1).kind = "withContentTypes"
  /\ call.req.headers.val.contentType = Some(Ab)
  /\ Guard(2).kind = "withAuthorization"
  /\ Guard(3).kind = "withCors"
  /\ handlerCalls = <<call>>

IsGuard(i, kind) == Ran(i) /\ Guard(i).kind = kind

(***************************************************************************)
(* C4: when the promise an authorizer returned for a non-empty header is   *)
(* fulfilled with a falsy verdict, the invocation has ended with the       *)
(* calling guard's response 403 "Forbidden" and without a call of the      *)
(* terminal handler.                                                       *)
(***************************************************************************)
C4_FalsyVerdictForbidden ==
  \A k \in 1..Len(promises) :
    (Returned /\ promises[k].state = "fulfilledFalse") =>
       /\ Responded(promises[k].by, 403, "Forbidden")
       /\ ~HandlerInvoked

(***************************************************************************)
(* C5: when the promise an authorizer returned is rejected, the invocation *)
(* has ended with the calling guard's response 401 "Unauthorized", without *)
(* a call of the terminal handler, without an error thrown to the caller   *)
(* and without an unhandled rejection.                                     *)
(***************************************************************************)
C5_RejectionUnauthorized ==
  \A k \in 1..Len(promises) :
    (Returned /\ promises[k].state = "rejected") =>
       /\ Responded(promises[k].by, 401, "Unauthorized")
       /\ ~HandlerInvoked
       /\ result # "threw"
       /\ unhandled = 0

(***************************************************************************)
(* C6: when an authorizer called with a non-empty header throws, the       *)
(* calling guard responds 401 "Unauthorized" and nothing else, does not    *)
(* call next, the invocation does not throw, and the terminal handler is   *)
(* not called.                                                             *)
(***************************************************************************)
ThrowingCall(k) ==
  /\ Guard(authCalls[k].by).config = "throws"
  /\ authCalls[k].w # ""

C6_ThrowUnauthorized ==
  \A k \in 1..Len(authCalls) :
    ThrowingCall(k) =>
       /\ Responded(authCalls[k].by, 401, "Unauthorized")
       /\ ~Delegated(authCalls[k].by)
       /\ result = "returned"
       /\ ~HandlerInvoked

C6_Witness ==
  /\ Returned
  /\ Len(authCalls) = 1
  /\ ThrowingCall(1)
  /\ authCalls[1].w = "Bearer valid"

(***************************************************************************)
(* C7: an authorization guard that runs on a request whose authorization   *)
(* header is absent or empty (or that has no headers at all) responds 401  *)
(* "Unauthorized" without calling its authorizer, and the terminal handler *)
(* is not called.                                                          *)
(***************************************************************************)
C7_MissingHeaderUnauthorized ==
  \A i \in 1..Len(middleware) :
    (IsGuard(i, "withAuthorization") /\ AuthorizationMissing(call.req)) =>
       /\ Responded(i, 401, "Unauthorized")
       /\ ~AuthorizerCalledBy(i)
       /\ ~Delegated(i)
       /\ ~HandlerInvoked

C7_Witness ==
  /\ Returned
  /\ IsGuard(1, "withAuthorization")
  /\ Guard(1).config = "returnsTrue"
  /\ call.req.headers.some
  /\ call.req.headers.val.authorization = Some("")
  /\ Responded(1, 401, "Unauthorized")

(***************************************************************************)
(* C8: a method guard that runs calls next, writing nothing, exactly when  *)
(* the request's method is character for character an entry of its list;   *)
(* otherwise it responds 405 "Method Not Allowed" and the terminal handler *)
(* is not called.  With the method guard alone in front of the handler,    *)
(* the handler is called exactly once if the method is an entry of the     *)
(* list and not at all otherwise.                                          *)
(***************************************************************************)
C8_MethodGuard ==
  /\ \A i \in 1..Len(middleware) :
       IsGuard(i, "withHttpMethods") =>
         IF ExactMember(Guard(i).config, call.req.method)
         THEN Delegated(i) /\ WroteNothing(i)
         ELSE /\ Responded(i, 405, "Method Not Allowed")
              /\ ~Delegated(i)
              /\ ~HandlerInvoked
  /\ (Returned /\ Len(middleware) = 1 /\ Guard(1).kind = "withHttpMethods") =>
       IF ExactMember(Guard(1).config, call.req.method)
       THEN handlerCalls = <<call>>
       ELSE handlerCalls = <<>>

C8_Witness ==
  /\ Returned
  /\ Len(middleware) = 1
  /\ IsGuard(1, "withHttpMethods")
  /\ Guard(1).config = <<GET>>
  /\ call.req.method = Some(get)
  /\ Responded(1, 405, "Method Not Allowed")
  /\ ~HandlerInvoked

(***************************************************************************)
(* C9: a content-type guard that runs calls next exactly when the          *)
(* lowercased content-type header of the request (the empty string when    *)
(* the header or the headers are missing) is equal to an entry of its list *)
(* as the entry was given; otherwise it responds 415 "Unsupported Media    *)
(* Type" and the terminal handler is not called.  An entry with an         *)
(* uppercase letter matches no request.                                    *)
(***************************************************************************)
C9_ContentTypeGuard ==
  \A i \in 1..Len(middleware) :
    IsGuard(i, "withContentTypes") =>
      /\ IF \E e \in 1..Len(Guard(i).config) :
              Guard(i).config[e] = LoweredContentType(call.req)
         THEN Delegated(i) /\ WroteNothing(i)
         ELSE /\ Responded(i, 415, "Unsupported Media Type")
              /\ ~Delegated(i)
              /\ ~HandlerInvoked
      /\ (\A e \in 1..Len(Guard(i).config) : HasUpper(Guard(i).config[e]))
           => ~Delegated(i)

C9_Witness ==
  /\ Returned
  /\ IsGuard(1, "withContentTypes")
  /\ Guard(1).config = <<Ab>>
  /\ call.req.headers.some
  /\ call.req.headers.val.contentType = Some(ab)
  /\ Responded(1, 415, "Unsupported Media Type")
  /\ ~HandlerInvoked

(***************************************************************************)
(* C10: a CORS guard that runs on a request whose method is OPTIONS in any *)
(* letter case sets Allow and Access-Control-Allow-Methods to the          *)
(* configured allow-methods, Access-Control-Allow-Origin to the configured *)
(* allow-origin, Access-Control-Allow-Headers to the configured            *)
(* allow-headers, sets status 204, sends an empty body as its last write,  *)
(* and does not call next.                                                 *)
(***************************************************************************)
C10_Preflight ==
  \A i \in 1..Len(middleware) :
    (IsGuard(i, "withCors") /\ IsOptionsAnyCase(call.req.method)) =>
       /\ SetHeader(i, "Allow", Guard(i).config.allowMethods)
       /\ SetHeader(i, "Access-Control-Allow-Methods", Guard(i).config.allowMethods)
       /\ SetHeader(i, "Access-Control-Allow-Origin", Guard(i).config.allowOrigin)
       /\ SetHeader(i, "Access-Control-Allow-Headers", Guard(i).config.allowHeaders)
       /\ WroteStatus(i, 204)
       /\ WritesOf(i)[Len(WritesOf(i))] = <<"send", "">>
       /\ Cardinality({k \in 1..Len(res) : res[k].by = i /\ res[k].w[1] = "send"}) = 1
       /\ ~Delegated(i)
       /\ ~HandlerInvoked

C10_Witness ==
  /\ Returned
  /\ Len(middleware) = 2
  /\ IsGuard(1, "withCors")
  /\ call.req.method = Some(Options)
  /\ WroteStatus(1, 204)
  /\ ~Ran(2)
  /\ ~HandlerInvoked


(***************************************************************************)
(* C11: a CORS guard answering a preflight request writes the header       *)
(* Access-Control-Max-Age exactly once, with the configured max-age as     *)
(* given, an explicit 0 included; it writes 5 only when no max-age is      *)
(* configured.                                                             *)
(***************************************************************************)
MaxAgeWrites(i) ==
  {k \in 1..Len(res) :
     res[k].by = i /\ res[k].w[1] = "setHeader" /\ res[k].w[2] = "Access-Control-Max-Age"}

C11_MaxAge ==
  \A i \in 1..Len(middleware) :
    (IsGuard(i, "withCors") /\ IsOptionsAnyCase(call.req.method)) =>
       /\ Cardinality(MaxAgeWrites(i)) = 1
       /\ \A k \in MaxAgeWrites(i) :
            /\ Guard(i).config.maxAge.some => res[k].w[3] = Guard(i).config.maxAge.val
            /\ ~Guard(i).config.maxAge.some => res[k].w[3] = 5
            /\ Guard(i).config.maxAge = Some(0) => res[k].w[3] = 0

C11_Witness ==
  /\ Returned
  /\ IsGuard(1, "withCors")
  /\ Guard(1).config.maxAge = Some(0)
  /\ call.req.method = Some(OPTIONS)
  /\ SetHeader(1, "Access-Control-Max-Age", 0)


(***************************************************************************)
(* C12: when the first guard of the list is a CORS guard and the request's *)
(* method is OPTIONS, no other guard's logic runs, no authorizer is        *)
(* called, the terminal handler is not called, none of the statuses 401,   *)
(* 403, 405 and 415 is written, and the invocation ends with the CORS      *)
(* guard's status 204.                                                     *)
(***************************************************************************)
RejectionStatuses == {401, 403, 405, 415}

C12_CorsFirst ==
  (/\ pc \in {"running", "returned"}
   /\ Len(middleware) > 0
   /\ Guard(1).kind = "withCors"
   /\ IsOptionsAnyCase(call.req.method))
  =>
   /\ \A k \in 1..Len(ran) : ran[k] = 1
   /\ authCalls = <<>>
   /\ ~HandlerInvoked
   /\ \A k \in 1..Len(res) :
        res[k].w[1] = "status" => res[k].w[2] \notin RejectionStatuses
   /\ Returned => (WroteStatus(1, 204) /\ SentBody(1))

C12_Witness ==
  /\ Returned
  /\ Len(middleware) = 3
  /\ Guard(1).kind = "withCors"
  /\ Guard(2).kind = "withHttpMethods"
  /\ Guard(2).config = <<GET>>
  /\ Guard(3).kind = "withAuthorization"
  /\ call.req.method = Some(OPTIONS)
  /\ ~call.req.headers.some
  /\ ran = <<1>>
  /\ WroteStatus(1, 204)


(***************************************************************************)
(* C13: when an invocation has reached the terminal handler, the value the *)
(* composed handler returns is the value the terminal handler returned:    *)
(* every guard that called next returns the result of next.                *)
(***************************************************************************)
C13_ReturnValue ==
  (Returned /\ HandlerInvoked) =>
     /\ ret = handlerRet
     /\ \A k \in 1..Len(frames) : frames[k] = "next"

C13_Witness ==
  /\ Returned
  /\ HandlerInvoked
  /\ Len(middleware) = 3
  /\ Guard(1).kind = "withHttpMethods"
  /\ Guard(2).kind = "withAuthorization"
  /\ Guard(3).kind = "withContentTypes"
  /\ \A i \in 1..3 : Allows(Guard(i), call.req)
  /\ handlerRet = "handlerValue"
  /\ ret = "handlerValue"


(***************************************************************************)
(* C14: combineMiddleware with an empty list of guards is the identity:    *)
(* the composed handler is the terminal handler itself, an invocation runs *)
(* the handler exactly once, and the only writes are the handler's.        *)
(***************************************************************************)
C14_EmptyIsIdentity ==
  (pc # "build" /\ Len(middleware) = 0) =>
     /\ composed = TerminalHandler
     /\ ran = <<>>
     /\ \A k \in 1..Len(res) : res[k].by = 0
     /\ Returned => (handlerCalls = <<call>> /\ ret = handlerRet)

C14_Witness ==
  /\ Returned
  /\ Len(middleware) = 0
  /\ handlerCalls = <<call>>
  /\ call.req.method = Some(OPTIONS)

(***************************************************************************)
(* C15: while a promise an authorizer returned for a non-empty header is   *)
(* pending, the terminal handler has not been called and nothing has been  *)
(* written to the response; the handler is called only once every such     *)
(* promise is fulfilled with a truthy verdict.                             *)
(***************************************************************************)
C15_WaitsForVerdict ==
  /\ \A k \in 1..Len(promises) :
       promises[k].state = "pending" => (~HandlerInvoked /\ res = <<>>)
  /\ HandlerInvoked => AllVerdictsTruthy

(***************************************************************************)
(* C16 as stated: a content-type guard that runs on a request without a    *)
(* content-type header responds 415 and the terminal handler is not        *)
(* called, whatever its list of allowed content types.                     *)
(***************************************************************************)
NoContentType(req) == ~req.headers.some \/ ~req.headers.val.contentType.some

C16_MissingContentTypeAnyList ==
  \A i \in 1..Len(middleware) :
    (IsGuard(i, "withContentTypes") /\ NoContentType(call.req)) =>
       /\ WroteStatus(i, 415)
       /\ ~HandlerInvoked

(***************************************************************************)
(* C16 amended: a content-type guard whose list of allowed content types   *)
(* does not contain the empty string, run on a request without a           *)
(* content-type header, responds 415 "Unsupported Media Type", does not    *)
(* call next, and the terminal handler is not called.                      *)
(***************************************************************************)
HasEmptyEntry(list) == \E e \in 1..Len(list) : Len(list[e]) = 0

C16_MissingContentType ==
  \A i \in 1..Len(middleware) :
    (/\ IsGuard(i, "withContentTypes")
     /\ NoContentType(call.req)
     /\ ~HasEmptyEntry(Guard(i).config))
    =>
       /\ Responded(i, 415, "Unsupported Media Type")
       /\ ~Delegated(i)
       /\ ~HandlerInvoked

C16_Witness ==
  /\ Returned
  /\ IsGuard(1, "withContentTypes")
  /\ Guard(1).config = <<ab>>
  /\ call.req.headers.some
  /\ ~call.req.headers.val.contentType.some
  /\ Responded(1, 415, "Unsupported Media Type")
  /\ ~HandlerInvoked


(***************************************************************************)
(* C17: a CORS guard that runs on a request whose method is not OPTIONS in *)
(* any letter case (a missing method included) writes nothing to the       *)
(* response and calls next exactly once, with the request/response pair it *)
(* was given.                                                              *)
(***************************************************************************)
TimesDelegated(i) == Cardinality({k \in 1..Len(delegated) : delegated[k] = i})

C17_CorsForwards ==
  \A i \in 1..Len(middleware) :
    (IsGuard(i, "withCors") /\ ~IsOptionsAnyCase(call.req.method)) =>
       /\ WroteNothing(i)
       /\ TimesDelegated(i) = 1
       /\ args = call
       /\ \A k \in 1..Len(handlerCalls) : handlerCalls[k] = call

C17_Witness ==
  /\ Returned
  /\ Len(middleware) = 1
  /\ IsGuard(1, "withCors")
  /\ ~call.req.method.some
  /\ WroteNothing(1)
  /\ handlerCalls = <<call>>

(***************************************************************************)
(* C18: a CORS guard that runs writes the header                           *)
(* Access-Control-Allow-Credentials exactly when its configured            *)
(* allow-credentials is true and the request is a preflight request, and   *)
(* then with the string "true"; with allow-credentials false it never      *)
(* writes that header.                                                     *)
(***************************************************************************)
CredentialsWrites(i) ==
  {k \in 1..Len(res) :
     /\ res[k].by = i
     /\ res[k].w[1] = "setHeader"
     /\ res[k].w[2] = "Access-Control-Allow-Credentials"}

C18_Credentials ==
  \A i \in 1..Len(middleware) :
    IsGuard(i, "withCors") =>
       /\ (CredentialsWrites(i) # {}) <=>
            (Guard(i).config.allowCredentials /\ IsOptionsAnyCase(call.req.method))
       /\ \A k \in CredentialsWrites(i) : res[k].w[3] = "true"
       /\ Cardinality(CredentialsWrites(i)) <= 1

C18_Witness ==
  /\ Returned
  /\ IsGuard(1, "withCors")
  /\ ~Guard(1).config.allowCredentials
  /\ call.req.method = Some(OPTIONS)
  /\ WroteStatus(1, 204)
  /\ CredentialsWrites(1) = {}


(***************************************************************************)
(* C20: every guard whose logic has run has done exactly one of two        *)
(* things: called next exactly once and written nothing, or written a      *)
(* response (a status and exactly one body, the body being its last write) *)
(* without calling next.  So the guards together send at most one body,    *)
(* and never send a body in an invocation in which the handler runs.       *)
(***************************************************************************)
SendsOf(i) == {k \in 1..Len(res) : res[k].by = i /\ res[k].w[1] = "send"}
GuardSends == {k \in 1..Len(res) : res[k].by # 0 /\ res[k].w[1] = "send"}

CalledNextOnly(i) == TimesDelegated(i) = 1 /\ WroteNothing(i)

RespondedOnly(i) ==
  /\ ~Delegated(i)
  /\ Cardinality(SendsOf(i)) = 1
  /\ WritesOf(i)[Len(WritesOf(i))][1] = "send"
  /\ \E k \in 1..Len(res) : res[k].by = i /\ res[k].w[1] = "status"

C20_RespondOrDelegate ==
  /\ \A i \in 1..Len(middleware) :
       Ran(i) => (CalledNextOnly(i) \/ RespondedOnly(i))
  /\ Cardinality(GuardSends) <= 1
  /\ ~(GuardSends # {} /\ HandlerInvoked)

C20_Witness ==
  /\ Returned
  /\ Len(middleware) = 3
  /\ CalledNextOnly(1)
  /\ CalledNextOnly(2)
  /\ Guard(3).kind = "withAuthorization"
  /\ Guard(3).config = "returnsFalse"
  /\ RespondedOnly(3)
  /\ WroteStatus(3, 403)


====
